---- MODULE Spec2Model ----
(***************************************************************************)
(* Model of Katna/video.py (class Video): the duration probe               *)
(* (_get_video_duration_with_ffmpeg), the chunking loop (_split), the      *)
(* keyframe pipeline (extract_video_keyframes, _remove_clips) and the bulk *)
(* compression (compress_videos_from_dir).                                 *)
(*                                                                         *)
(* Time is counted in centiseconds (the resolution of ffmpeg's             *)
(* HH:MM:SS.ss timestamps), so 90.5 seconds is 9050.  Text is a sequence   *)
(* of one-character strings.                                               *)
(***************************************************************************)
EXTENDS Integers, Sequences, FiniteSets, TLC

VARIABLES
    entry,          \* the method the caller invoked: "probe", "split", "extract", "compress"
    pc,             \* position of the call inside the code
    error,          \* the exception that left the call, "none" while there is none
    file_exists,    \* FileDecorators.validate_file_path: the path names a file
    valid_video,    \* helper._check_if_valid_video(file_path)
    infos,          \* the decoded diagnostic text of ffmpeg (stderr)
    lines,          \* infos.splitlines()
    video_duration, \* value returned by _get_video_duration_with_ffmpeg, NoDuration before
    cpu,            \* cpu_count()
    min_video_duration, \* self.min_video_duration
    duration,       \* _split: duration
    break_point,    \* _split: break_point
    clip_start,     \* _split: clip_start
    iterations,     \* _split: number of loop iterations executed
    windows,        \* the (start, end) pairs handed to _write_videofile, in order
    clipped_files,  \* _split: clipped_files / extract_video_keyframes: chunked_videos
    disk,           \* clip files present in self.temp_folder
    pool_extractor, \* self.pool_extractor: "none", "open", "terminated"
    pool_selector,  \* self.pool_selector: "none", "open"
    task,           \* pool_extractor.map: per clip its state ("pending", "done") and frames
    extracted_candidate_frames, \* the flattened candidate list, empty before the flattening
    remove_attempted, \* clips os.remove was called on by _remove_clips
    remove_failed,  \* clips whose os.remove raised OSError
    selector_input, \* the candidate lists handed to select_best_frames, one per invocation
    top_frames,     \* value returned by extract_video_keyframes, empty before
    tree,           \* compress_videos_from_dir: the files under dir_path, in walk order
    list_of_videos_to_process, \* compress_videos_from_dir: the list built by pass 1
    next_video,     \* compress_videos_from_dir: index of the next list element of pass 2
    invocations,    \* the paths compress_video was invoked on, in order
    outcomes,       \* the statusI values returned so far, in order
    status,         \* compress_videos_from_dir: status; the returned value at pc = "done"
    n_processes,    \* self.n_processes: <<n>> for the number n, <<>> for None
    pool_sizes,     \* the processes= arguments of the Pool constructors called, in order
    walked,         \* the files os.walk has yielded to the running directory scan
    all_videos_top_frames, \* extract_keyframes_from_videos_dir: the keys of the dictionary
    stems,          \* directory scan: for each file of the tree, name.split(".")[0]
    temp_folder_at, \* directory scan: the number of files of the tree the walk yields
                    \* before it lists self.temp_folder; NotUnder, Listed
    call_pc,        \* two concurrent calls: position of each call
    call_clips,     \* two concurrent calls: chunked_videos / clipped_files of each call
    call_consumed,  \* two concurrent calls: the clips each call's extractor has read
    call_removed,   \* two concurrent calls: the clips of each call os.remove was tried on
    writer,         \* two concurrent calls: for each file of the folder, the call that wrote it
    clobbered       \* two concurrent calls: <<call, path>> whenever call overwrote or deleted
                    \* a clip the other call had cut and not yet read

vars == <<entry, pc, error, file_exists, valid_video, infos, lines, video_duration,
          cpu, min_video_duration, duration, break_point, clip_start, iterations,
          windows, clipped_files, disk, pool_extractor, pool_selector, task,
          extracted_candidate_frames, remove_attempted, remove_failed, selector_input,
          top_frames, tree, list_of_videos_to_process, next_video, invocations, outcomes, status,
          n_processes, pool_sizes, walked, all_videos_top_frames, stems,
          temp_folder_at,
          call_pc, call_clips, call_consumed, call_removed, writer, clobbered>>

probeVars == <<infos, lines, video_duration>>
splitVars == <<cpu, min_video_duration, duration, break_point, clip_start, iterations,
               windows, clipped_files>>
pipeVars == <<pool_extractor, pool_selector, task, extracted_candidate_frames,
              remove_attempted, remove_failed, selector_input, top_frames>>
compressVars == <<tree, list_of_videos_to_process, next_video, invocations, outcomes, status>>
poolVars == <<n_processes, pool_sizes>>
dirVars == <<walked, all_videos_top_frames, stems, temp_folder_at>>
callVars == <<call_pc, call_clips, call_consumed, call_removed, writer, clobbered>>
extraVars == <<poolVars, dirVars, callVars>>

NotUnder == -1         \* temp_folder_at: self.temp_folder is not under the scanned directory
Listed == -2           \* temp_folder_at: the walk has listed self.temp_folder
NoDuration == -1       \* video_duration before the probe has returned

(***************************************************************************)
(* Bounds of the model.                                                    *)
(***************************************************************************)
MaxLines == 3          \* lines in a diagnostic text of the probe specification
MaxDuration == 10000   \* largest duration (centiseconds) of the chunker specification
MaxCpu == 4            \* largest cpu_count()
MaxVideos == 3         \* videos found by the directory walk
MaxFrames == 1         \* candidate frames the extraction collaborator returns for one clip
MaxUnits == 8          \* largest cpu_count() of a call of extract_video_keyframes

(***************************************************************************)
(* Characters and sample lines of diagnostic text.                         *)
(***************************************************************************)
Digits == <<"0", "1", "2", "3", "4", "5", "6", "7", "8", "9">>
IsDigit(c) == \E n \in 1..10 : Digits[n] = c
DigitVal(c) == (CHOOSE n \in 1..10 : Digits[n] = c) - 1
TwoDigits(n) == <<Digits[(n \div 10) + 1], Digits[(n % 10) + 1]>>
Stamp(h, m, s, sep, c) ==
    TwoDigits(h) \o <<":">> \o TwoDigits(m) \o <<":">> \o TwoDigits(s) \o <<sep>> \o TwoDigits(c)

DurationMarker == <<"D", "u", "r", "a", "t", "i", "o", "n", ":">>
NoSuchFile == <<"N", "o", " ", "s", "u", "c", "h", " ", "f", "i", "l", "e", " ", "o", "r",
                " ", "d", "i", "r", "e", "c", "t", "o", "r", "y">>

LineBanner == <<"f", "f", "m", "p", "e", "g">>
LineEmpty == <<>>
LineMissing == <<"a", ":", " ">> \o NoSuchFile
LineDurNA == DurationMarker \o <<" ", "N", "/", "A">>
LineDur(h, m, s, c) == <<" ">> \o DurationMarker \o <<" ">> \o Stamp(h, m, s, ".", c) \o <<",">>
LineDurOddSep == DurationMarker \o <<" ">> \o Stamp(0, 0, 10, "x", 0)
LineDurTwo == DurationMarker \o <<" ">> \o Stamp(0, 0, 10, ".", 0) \o <<" ">> \o Stamp(0, 1, 7, ".", 0)
LineStampOnly == <<"t", " ">> \o Stamp(0, 2, 0, ".", 0)

SampleLines == {LineBanner, LineEmpty, LineMissing, LineDurNA, LineDur(0, 1, 30, 50),
                LineDur(0, 0, 40, 0), LineDurOddSep, LineDurTwo, LineStampOnly}

\* the characters U+000B (line tabulation) and U+001C, U+001D, U+001E (file, group
\* and record separator), written as they are
VT == ""
FS == ""
GS == ""
RS == ""
\* the characters U+0085 (next line), U+2028 (line separator) and U+2029
\* (paragraph separator), which a string of this language cannot hold: in a text
\* each is the element of that name
NEL == "NEL"
LS == "LS"
PS == "PS"

\* the line ends of the sample texts: newline, carriage return (ffmpeg's progress
\* lines), both, and the other boundaries of str.splitlines()
LineEnds == {<<"\n">>, <<"\r">>, <<"\r", "\n">>, <<"\f">>, <<VT>>, <<FS>>, <<GS>>, <<RS>>,
             <<NEL>>, <<LS>>, <<PS>>}

RECURSIVE JoinLines(_, _)
JoinLines(ls, sep) ==
    IF ls = <<>> THEN <<>>
    ELSE IF Len(ls) = 1 THEN ls[1]
    ELSE ls[1] \o sep \o JoinLines(Tail(ls), sep)

\* every text of at most MaxLines sample lines that end with newlines, and every
\* text of fewer lines with any other line end, with and without a final line end
LineSeqs == UNION {[1..n -> SampleLines] : n \in 0..MaxLines}
ShortLineSeqs == UNION {[1..n -> SampleLines] : n \in 0..(MaxLines - 1)}
SampleTexts ==
    {JoinLines(ls, <<"\n">>) : ls \in LineSeqs}
    \cup {JoinLines(ls, <<"\n">>) \o <<"\n">> : ls \in LineSeqs \ {<<>>}}
    \cup {JoinLines(ls, sep) : ls \in ShortLineSeqs, sep \in LineEnds}
    \cup {JoinLines(ls, sep) \o sep : ls \in ShortLineSeqs \ {<<>>}, sep \in LineEnds}

(***************************************************************************)
(* _get_video_duration_with_ffmpeg: the pure parts.                        *)
(***************************************************************************)
\* str.splitlines(): the text is split at every line boundary, "\r\n" is one
\* boundary, and a final boundary is not followed by an empty line
LineBreaks == {"\n", "\r", "\f", VT, FS, GS, RS, NEL, LS, PS}
\* the positions where a line boundary ends
NewlinePositions(s) ==
    {i \in 1..Len(s) : /\ s[i] \in LineBreaks
                       /\ ~(s[i] = "\r" /\ i < Len(s) /\ s[i + 1] = "\n")}
NthNewline(s, k) ==
    CHOOSE i \in NewlinePositions(s) : Cardinality({j \in NewlinePositions(s) : j < i}) = k - 1
\* the position where the boundary that ends at position i begins
BoundaryStart(s, i) ==
    IF s[i] = "\n" /\ i > 1 /\ s[i - 1] = "\r" THEN i - 1 ELSE i
SplitLines(s) ==
    LET n == Cardinality(NewlinePositions(s))
        first(k) == IF k = 1 THEN 1 ELSE NthNewline(s, k - 1) + 1
        last(k) == IF k <= n THEN BoundaryStart(s, NthNewline(s, k)) - 1 ELSE Len(s)
        count == IF Len(s) = 0 THEN 0
                 ELSE IF n > 0 /\ NthNewline(s, n) = Len(s) THEN n
                 ELSE n + 1
    IN  [k \in 1..count |-> SubSeq(s, first(k), last(k))]

\* pat in line
Contains(line, pat) ==
    \E i \in 1..(Len(line) - Len(pat) + 1) : SubSeq(line, i, i + Len(pat) - 1) = pat

\* [line for line in lines if pat in line]
RECURSIVE Filter(_, _)
Filter(ls, pat) ==
    IF ls = <<>> THEN <<>>
    ELSE IF Contains(ls[1], pat) THEN <<ls[1]>> \o Filter(Tail(ls), pat)
    ELSE Filter(Tail(ls), pat)

\* the pattern [0-9][0-9]:[0-9][0-9]:[0-9][0-9].[0-9][0-9] matches at position i
StampLen == 11
MatchAt(line, i) ==
    /\ i + StampLen - 1 <= Len(line)
    /\ IsDigit(line[i]) /\ IsDigit(line[i + 1]) /\ line[i + 2] = ":"
    /\ IsDigit(line[i + 3]) /\ IsDigit(line[i + 4]) /\ line[i + 5] = ":"
    /\ IsDigit(line[i + 6]) /\ IsDigit(line[i + 7])
    /\ line[i + 8] # "\n"
    /\ IsDigit(line[i + 9]) /\ IsDigit(line[i + 10])

\* re.findall(pattern, line): the non-overlapping matches, left to right
RECURSIVE FindAllFrom(_, _)
FindAllFrom(line, i) ==
    IF i + StampLen - 1 > Len(line) THEN <<>>
    ELSE IF MatchAt(line, i)
         THEN <<SubSeq(line, i, i + StampLen - 1)>> \o FindAllFrom(line, i + StampLen)
         ELSE FindAllFrom(line, i + 1)
FindAll(line) == FindAllFrom(line, 1)

\* helper._convert_to_seconds on a HH:MM:SS.ss match, in centiseconds:
\* hours*3600 + minutes*60 + seconds + centiseconds/100; a part that is not a
\* number (the pattern's "." matched another character) is a ValueError
TwoVal(m, i) == 10 * DigitVal(m[i]) + DigitVal(m[i + 1])
ConvertFails(m) == m[9] # "."
ConvertToSeconds(m) ==
    360000 * TwoVal(m, 1) + 6000 * TwoVal(m, 4) + 100 * TwoVal(m, 7) + TwoVal(m, 10)

\* the lines the duration is looked for in: [line for line in lines if "Duration:" in line]
DurationLines(ls) == Filter(ls, DurationMarker)
\* variant: the first Duration line is read instead of the last
SelectedLineFirst(ls) == DurationLines(ls)[1]

\* the line the duration is read from: the last element of that list
SelectedLine(ls) == DurationLines(ls)[Len(DurationLines(ls))]
\* the try block raises: no Duration line, no match on the selected line, or a failed conversion
ParseFails(ls) ==
    IF DurationLines(ls) = <<>> THEN TRUE
    ELSE IF FindAll(SelectedLine(ls)) = <<>> THEN TRUE
    ELSE ConvertFails(FindAll(SelectedLine(ls))[1])
ParsedDuration(ls) == ConvertToSeconds(FindAll(SelectedLine(ls))[1])

(***************************************************************************)
(* _get_video_duration_with_ffmpeg: the steps.                             *)
(***************************************************************************)
\* the call returns to its caller: _split goes on, a direct call is done
AfterProbe == IF entry = "probe" THEN "done" ELSE "split_init"

\* lines 385-395: run ffmpeg, decode its stderr and split it into lines
ProbeRun ==
    /\ pc = "probe"
    /\ lines' = SplitLines(infos)
    /\ pc' = "probe_check"
    /\ UNCHANGED <<entry, error, file_exists, valid_video, infos, video_duration,
                   splitVars, disk, pipeVars, compressVars, extraVars>>

\* line 390: ffmpeg exits with an error, ff.run() raises FFRuntimeError
ProbeRunFails ==
    /\ pc = "probe"
    /\ error' = "FFRuntimeError"
    /\ pc' = "failed"
    /\ UNCHANGED <<entry, file_exists, valid_video, probeVars, splitVars, disk,
                   pipeVars, compressVars, extraVars>>

\* line 396 on an empty list of lines: lines[-1] raises IndexError
ProbeNoLines ==
    /\ pc = "probe_check"
    /\ lines = <<>>
    /\ error' = "IndexError"
    /\ pc' = "failed"
    /\ UNCHANGED <<entry, file_exists, valid_video, probeVars, splitVars, disk,
                   pipeVars, compressVars, extraVars>>

\* lines 396-404: the last line reports a missing file
ProbeNotFound ==
    /\ pc = "probe_check"
    /\ lines # <<>>
    /\ Contains(lines[Len(lines)], NoSuchFile)
    /\ error' = "IOError_not_found"
    /\ pc' = "failed"
    /\ UNCHANGED <<entry, file_exists, valid_video, probeVars, splitVars, disk,
                   pipeVars, compressVars, extraVars>>

\* lines 408-421: the try block raises, the handler raises IOError
ProbeUnparseable ==
    /\ pc = "probe_check"
    /\ lines # <<>>
    /\ ~Contains(lines[Len(lines)], NoSuchFile)
    /\ ParseFails(lines)
    /\ error' = "IOError_no_duration"
    /\ pc' = "failed"
    /\ UNCHANGED <<entry, file_exists, valid_video, probeVars, splitVars, disk,
                   pipeVars, compressVars, extraVars>>

\* lines 408-422: the duration is parsed and returned
ProbeReturn ==
    /\ pc = "probe_check"
    /\ lines # <<>>
    /\ ~Contains(lines[Len(lines)], NoSuchFile)
    /\ ~ParseFails(lines)
    /\ video_duration' = ParsedDuration(lines)
    /\ pc' = AfterProbe
    /\ UNCHANGED <<entry, error, file_exists, valid_video, infos, lines, splitVars,
                   disk, pipeVars, compressVars, extraVars>>

(***************************************************************************)
(* _split and _write_videofile.                                            *)
(***************************************************************************)
\* variant: the per-core share is compared with >= 15 instead of > 15
BreakPointFrom15(d, n) ==
    LET share == d \div (100 * n)
    IN  IF share >= 15 THEN 100 * share ELSE 2500

\* variant: without the default of 25 seconds
BreakPointNoDefault(d, n) ==
    LET share == d \div (100 * n)
    IN  IF share > 15 THEN 100 * share ELSE 0

\* lines 287-290: duration // cpu_count() if duration // cpu_count() > 15 else 25
\* (floor division of seconds, result in centiseconds)
BreakPoint(d, n) ==
    LET share == d \div (100 * n)
    IN  IF share > 15 THEN 100 * share ELSE 2500

\* variant: only the min_video_duration test clamps the end
ClipEndMinOnly(start, bp, d, minDur) ==
    LET clip_end == start + bp
    IN  IF (clip_end + minDur) > d THEN d ELSE clip_end

\* variant: a short remainder is not merged
ClipEndNoMerge(start, bp, d, minDur) ==
    LET clip_end == start + bp
    IN  IF clip_end > d THEN d ELSE clip_end

\* variant: the end is never clamped to the duration
ClipEndNoClamp(start, bp, d, minDur) == start + bp

\* variant: a remainder of exactly min_video_duration is merged as well
ClipEndMergeAtEqual(start, bp, d, minDur) ==
    LET clip_end == start + bp
    IN  IF clip_end > d \/ (clip_end + minDur) >= d THEN d ELSE clip_end

\* lines 295-301: the end of the clip that starts at start
ClipEnd(start, bp, d, minDur) ==
    LET clip_end == start + bp
    IN  IF clip_end > d \/ (clip_end + minDur) > d THEN d ELSE clip_end

\* lines 321, 328: name.split(".")[0] of the video the call works on; videos of a
\* directory scan in different folders or with different extensions can share it
VideoName == IF entry = "extract_dir" THEN stems[next_video] ELSE <<1>>

\* lines 321-330: the clip's file, named after the video and the two offsets
ClipPath(name, start, end) == [video |-> name, start |-> start, end |-> end]

\* lines 321, 328 on a clip file: its name up to the first ".", that is
\* <video name>_<start position>_<end position>
ClipStem(p) == p.video \o <<p.start, p.end>>

\* the call returns to its caller: extract_video_keyframes goes on, a direct call is done
AfterSplit == IF entry = "split" THEN "done" ELSE "map"

\* lines 282-290: the duration is known, the loop variables are set
SplitInit ==
    /\ pc = "split_init"
    /\ duration' = video_duration
    /\ clip_start' = 0
    /\ break_point' = BreakPoint(video_duration, cpu)
    /\ clipped_files' = <<>>
    /\ pc' = "split_loop"
    /\ UNCHANGED <<entry, error, file_exists, valid_video, probeVars, cpu,
                   min_video_duration, iterations, windows, disk, pipeVars, compressVars, extraVars>>

\* lines 293-305: one iteration of the loop, the subclip is cut
SplitIter ==
    /\ pc = "split_loop"
    /\ clip_start < duration
    /\ LET clip_end == ClipEnd(clip_start, break_point, duration, min_video_duration)
       IN  /\ windows' = Append(windows, <<clip_start, clip_end>>)
           /\ clipped_files' = Append(clipped_files, ClipPath(VideoName, clip_start, clip_end))
           /\ disk' = disk \cup {ClipPath(VideoName, clip_start, clip_end)}
           /\ clip_start' = clip_end
    /\ iterations' = iterations + 1
    /\ UNCHANGED <<entry, pc, error, file_exists, valid_video, probeVars, cpu,
                   min_video_duration, duration, break_point, pipeVars, compressVars, extraVars>>

\* lines 303, 332-334, 366: ffmpeg fails on the subclip, ff.run() raises; the
\* target file may or may not have been created
SplitCutFails ==
    /\ pc = "split_loop"
    /\ clip_start < duration
    /\ LET clip_end == ClipEnd(clip_start, break_point, duration, min_video_duration)
       IN  /\ windows' = Append(windows, <<clip_start, clip_end>>)
           /\ \E written \in BOOLEAN :
                 disk' = IF written THEN disk \cup {ClipPath(VideoName, clip_start, clip_end)} ELSE disk
    /\ iterations' = iterations + 1
    /\ error' = "FFRuntimeError"
    /\ pc' = "failed"
    /\ UNCHANGED <<entry, file_exists, valid_video, probeVars, cpu, min_video_duration,
                   duration, break_point, clip_start, clipped_files, pipeVars, compressVars, extraVars>>

\* lines 293, 306: the loop condition is false, clipped_files is returned
SplitReturn ==
    /\ pc = "split_loop"
    /\ ~(clip_start < duration)
    /\ pc' = AfterSplit
    /\ UNCHANGED <<entry, error, file_exists, valid_video, probeVars, splitVars, disk,
                   pipeVars, compressVars, extraVars>>

(***************************************************************************)
(* __init__: the size of the pools.                                        *)
(***************************************************************************)
\* variant: None is chosen only below 0
NProcessesBelowZero(units) ==
    LET n == units \div 2 - 1
    IN  IF n < 0 THEN <<>> ELSE <<n>>

\* lines 41-43: cpu_count() // 2 - 1, None when that is below 1
NProcesses(units) ==
    LET n == units \div 2 - 1
    IN  IF n < 1 THEN <<>> ELSE <<n>>

(***************************************************************************)
(* extract_video_keyframes and _remove_clips.                              *)
(***************************************************************************)
\* line 94, FileDecorators.validate_file_path: the path does not name a file
ExtractNoFile ==
    /\ pc = "extract"
    /\ ~file_exists
    /\ error' = "FileNotFoundError"
    /\ pc' = "failed"
    /\ UNCHANGED <<entry, file_exists, valid_video, probeVars, splitVars, disk,
                   pipeVars, compressVars, extraVars>>

\* lines 106-107: the two pools are created, both with processes=self.n_processes
ExtractCreatePools ==
    /\ pc = "extract"
    /\ file_exists
    /\ pool_extractor' = "open"
    /\ pool_selector' = "open"
    /\ pool_sizes' = pool_sizes \o <<n_processes, n_processes>>
    /\ pc' = "validate"
    /\ UNCHANGED <<entry, error, file_exists, valid_video, probeVars, splitVars, disk,
                   task, extracted_candidate_frames, remove_attempted, remove_failed,
                   selector_input, top_frames, compressVars, n_processes, dirVars, callVars>>

\* lines 110-111: the file is not a valid video
ExtractInvalid ==
    /\ pc = "validate"
    /\ ~valid_video
    /\ error' = "InvalidVideo"
    /\ pc' = "failed"
    /\ UNCHANGED <<entry, file_exists, valid_video, probeVars, splitVars, disk,
                   pipeVars, compressVars, extraVars>>

\* lines 110, 113: the file is a valid video, _split is called
ExtractCallSplit ==
    /\ pc = "validate"
    /\ valid_video
    /\ pc' = "probe"
    /\ UNCHANGED <<entry, error, file_exists, valid_video, probeVars, splitVars, disk,
                   pipeVars, compressVars, extraVars>>

\* lines 119-122: every clip is handed to the extractor pool
MapDispatch ==
    /\ pc = "map"
    /\ task' = [i \in 1..Len(clipped_files) |-> [state |-> "pending", frames |-> <<>>]]
    /\ pc' = "mapping"
    /\ UNCHANGED <<entry, error, file_exists, valid_video, probeVars, splitVars, disk,
                   pool_extractor, pool_selector, extracted_candidate_frames,
                   remove_attempted, remove_failed, selector_input, top_frames,
                   compressVars, extraVars>>

\* the frames extract_candidate_frames returns for clip i when it returns n of them
FramesOf(i, n) == [k \in 1..n |-> [clip |-> i, k |-> k]]

\* a worker finishes extract_candidate_frames on one clip
TaskDone ==
    /\ pc = "mapping"
    /\ \E i \in DOMAIN task, n \in 0..MaxFrames :
          /\ task[i].state = "pending"
          /\ task' = [task EXCEPT ![i] = [state |-> "done", frames |-> FramesOf(i, n)]]
    /\ UNCHANGED <<entry, pc, error, file_exists, valid_video, probeVars, splitVars, disk,
                   pool_extractor, pool_selector, extracted_candidate_frames,
                   remove_attempted, remove_failed, selector_input, top_frames,
                   compressVars, extraVars>>

\* lines 119-122: extract_candidate_frames raises on one clip, map re-raises it,
\* the with block terminates the pool and the exception leaves the method
TaskRaises ==
    /\ pc = "mapping"
    /\ \E i \in DOMAIN task : task[i].state = "pending"
    /\ pool_extractor' = "terminated"
    /\ error' = "ExtractionError"
    /\ pc' = "failed"
    /\ UNCHANGED <<entry, file_exists, valid_video, probeVars, splitVars, disk,
                   pool_selector, task, extracted_candidate_frames, remove_attempted,
                   remove_failed, selector_input, top_frames, compressVars, extraVars>>

\* [frame for frames in extracted_candidate_frames for frame in frames]
RECURSIVE FlattenFrom(_, _)
FlattenFrom(t, i) ==
    IF i > Len(t) THEN <<>> ELSE t[i].frames \o FlattenFrom(t, i + 1)
Flatten(t) == FlattenFrom(t, 1)

\* variant: map returns with the first result
MapCompleteFirst(t) == t = <<>> \/ \E i \in DOMAIN t : t[i].state = "done"

\* map has every result
MapComplete(t) == \A i \in DOMAIN t : t[i].state = "done"

\* lines 120-126: map returns, the nested list is flattened, the with block ends
MapReturn ==
    /\ pc = "mapping"
    /\ MapComplete(task)
    /\ extracted_candidate_frames' = Flatten(task)
    /\ pool_extractor' = "terminated"
    /\ pc' = "remove"
    /\ UNCHANGED <<entry, error, file_exists, valid_video, probeVars, splitVars, disk,
                   pool_selector, task, remove_attempted, remove_failed, selector_input,
                   top_frames, compressVars, extraVars>>

Range(f) == {f[i] : i \in DOMAIN f}

\* variant: the clips whose removal failed are the ones deleted
AfterRemovalInverted(files, clips, failing) == files \ failing

\* lines 56-60: the files left after os.remove was tried on every clip and
\* raised OSError for the clips in failing
AfterRemoval(files, clips, failing) == files \ (clips \ failing)

\* lines 128, 50-60: _remove_clips; an OSError of os.remove is printed and ignored
RemoveClips ==
    /\ pc = "remove"
    /\ \E failing \in SUBSET Range(clipped_files) :
          /\ disk' = AfterRemoval(disk, Range(clipped_files), failing)
          /\ remove_failed' = failing
    /\ remove_attempted' = Range(clipped_files)
    /\ pc' = "select"
    /\ UNCHANGED <<entry, error, file_exists, valid_video, probeVars, splitVars,
                   pool_extractor, pool_selector, task, extracted_candidate_frames,
                   selector_input, top_frames, compressVars, extraVars>>

\* the call returns to its caller: the directory scan stores the frames, a
\* direct call is done
AfterExtract == IF entry = "extract_dir" THEN "store" ELSE "done"

\* lines 129-134: select_best_frames returns some of the candidates, which are returned
SelectReturn ==
    /\ pc = "select"
    /\ selector_input' = Append(selector_input, extracted_candidate_frames)
    /\ \E n \in 0..Len(extracted_candidate_frames) :
          top_frames' = SubSeq(extracted_candidate_frames, 1, n)
    /\ pc' = AfterExtract
    /\ UNCHANGED <<entry, error, file_exists, valid_video, probeVars, splitVars, disk,
                   pool_extractor, pool_selector, task, extracted_candidate_frames,
                   remove_attempted, remove_failed, compressVars, extraVars>>

\* lines 129-132: select_best_frames raises
SelectRaises ==
    /\ pc = "select"
    /\ selector_input' = Append(selector_input, extracted_candidate_frames)
    /\ error' = "SelectionError"
    /\ pc' = "failed"
    /\ UNCHANGED <<entry, file_exists, valid_video, probeVars, splitVars, disk,
                   pool_extractor, pool_selector, task, extracted_candidate_frames,
                   remove_attempted, remove_failed, top_frames, compressVars, extraVars>>

(***************************************************************************)
(* compress_videos_from_dir.                                               *)
(***************************************************************************)
\* lines 236-240: the paths of the valid videos of the tree, in walk order
RECURSIVE ValidVideos(_, _)
ValidVideos(t, i) ==
    IF i > Len(t) THEN <<>>
    ELSE IF t[i] THEN <<i>> \o ValidVideos(t, i + 1)
    ELSE ValidVideos(t, i + 1)

\* lines 233-240: pass 1, the walk that collects the valid videos
CompressCollect ==
    /\ pc = "collect"
    /\ status' = TRUE
    /\ list_of_videos_to_process' = ValidVideos(tree, 1)
    /\ next_video' = 1
    /\ pc' = "compress"
    /\ walked' = tree
    /\ UNCHANGED <<entry, error, file_exists, valid_video, probeVars, splitVars, disk,
                   pipeVars, tree, invocations, outcomes, poolVars,
                   all_videos_top_frames, stems,
                   temp_folder_at, callVars>>

\* variant: the status of the last file wins
AndStatusLast(s, statusI) == statusI

\* line 251: status = bool(status and statusI)
AndStatus(s, statusI) == s /\ statusI

\* variant: pass 2 iterates over the live listing, an output file written into
\* the tree joins the list (once the list is longer than MaxVideos it stops growing)
CompressOneLiveList ==
    /\ pc = "compress"
    /\ next_video <= Len(list_of_videos_to_process)
    /\ \E statusI \in BOOLEAN, inTree \in BOOLEAN :
          /\ status' = AndStatus(status, statusI)
          /\ outcomes' = Append(outcomes, statusI)
          /\ tree' = IF statusI /\ inTree THEN Append(tree, TRUE) ELSE tree
          /\ list_of_videos_to_process' =
                IF statusI /\ inTree /\ Len(list_of_videos_to_process) <= MaxVideos
                THEN Append(list_of_videos_to_process, Len(tree) + 1)
                ELSE list_of_videos_to_process
    /\ invocations' = Append(invocations, list_of_videos_to_process[next_video])
    /\ next_video' = next_video + 1
    /\ UNCHANGED <<entry, pc, error, file_exists, valid_video, probeVars, splitVars, disk,
                   pipeVars, extraVars>>

\* lines 243-251: one iteration of pass 2, compress_video returns statusI; the
\* output file may land inside the walked tree
CompressOne ==
    /\ pc = "compress"
    /\ next_video <= Len(list_of_videos_to_process)
    /\ \E statusI \in BOOLEAN, inTree \in BOOLEAN :
          /\ status' = AndStatus(status, statusI)
          /\ outcomes' = Append(outcomes, statusI)
          /\ tree' = IF statusI /\ inTree THEN Append(tree, TRUE) ELSE tree
    /\ invocations' = Append(invocations, list_of_videos_to_process[next_video])
    /\ next_video' = next_video + 1
    /\ UNCHANGED <<entry, pc, error, file_exists, valid_video, probeVars, splitVars, disk,
                   pipeVars, list_of_videos_to_process, extraVars>>

\* variant: the exception of compress_video is caught, the file counts as failed
CompressRaisesCaught ==
    /\ pc = "compress"
    /\ next_video <= Len(list_of_videos_to_process)
    /\ invocations' = Append(invocations, list_of_videos_to_process[next_video])
    /\ error' = "CompressionError"
    /\ status' = FALSE
    /\ next_video' = next_video + 1
    /\ UNCHANGED <<entry, pc, file_exists, valid_video, probeVars, splitVars, disk,
                   pipeVars, tree, list_of_videos_to_process, outcomes, extraVars>>

\* lines 244-250, 180-192: compress_video raises, the exception leaves the method
CompressRaises ==
    /\ pc = "compress"
    /\ next_video <= Len(list_of_videos_to_process)
    /\ invocations' = Append(invocations, list_of_videos_to_process[next_video])
    /\ error' = "CompressionError"
    /\ pc' = "failed"
    /\ UNCHANGED <<entry, file_exists, valid_video, probeVars, splitVars, disk,
                   pipeVars, tree, list_of_videos_to_process, next_video, outcomes, status,
                   extraVars>>

\* lines 243, 252: the list is exhausted, status is returned
CompressReturn ==
    /\ pc = "compress"
    /\ next_video > Len(list_of_videos_to_process)
    /\ pc' = "done"
    /\ UNCHANGED <<entry, error, file_exists, valid_video, probeVars, splitVars, disk,
                   pipeVars, compressVars, extraVars>>

(***************************************************************************)
(* extract_keyframes_from_videos_dir.  The call of extract_video_keyframes *)
(* on a video of the walk runs the steps of extract_video_keyframes above; *)
(* an exception of any of them leaves the directory scan as well.          *)
(***************************************************************************)
\* the diagnostic texts ffmpeg answers with for the videos of the walk
DirTexts ==
    {JoinLines(<<LineBanner, LineDur(0, 0, 20, 0)>>, <<"\n">>) \o <<"\n">>,
     JoinLines(<<LineBanner, LineDurNA>>, <<"\n">>) \o <<"\n">>,
     JoinLines(<<LineDur(0, 0, 20, 0), LineMissing>>, <<"\r">>),
     <<>>}

\* line 81: os.walk lists a folder when it reaches it; self.temp_folder (lines
\* 46-48, "clipped" under the working directory) is the next folder of the walk
TempFolderNext == temp_folder_at = next_video - 1

\* the orders in which a listing can give the files of the set S
Orders(S) ==
    {f \in [1..Cardinality(S) -> S] : \A i, j \in 1..Cardinality(S) : f[i] = f[j] => i = j}

\* line 81: the walk reaches self.temp_folder and lists it: the clips that
\* _remove_clips could not delete are files of the walk from here on, each a
\* video named as a clip
DirListTemp ==
    /\ pc = "walk"
    /\ TempFolderNext
    /\ \E order \in Orders(disk) :
          LET before == SubSeq(tree, 1, temp_folder_at)
              after == SubSeq(tree, temp_folder_at + 1, Len(tree))
              n == Cardinality(disk)
          IN  /\ tree' = before \o [i \in 1..n |-> TRUE] \o after
              /\ stems' = SubSeq(stems, 1, temp_folder_at)
                            \o [i \in 1..n |-> ClipStem(order[i])]
                            \o SubSeq(stems, temp_folder_at + 1, Len(stems))
    /\ temp_folder_at' = Listed
    /\ UNCHANGED <<entry, pc, error, file_exists, valid_video, probeVars, splitVars, disk,
                   pipeVars, list_of_videos_to_process, next_video, invocations, outcomes,
                   status, poolVars, walked, all_videos_top_frames, callVars>>

\* lines 81-85: the walk yields a file that is not a valid video
DirSkip ==
    /\ pc = "walk"
    /\ ~TempFolderNext
    /\ next_video <= Len(tree)
    /\ ~tree[next_video]
    /\ walked' = Append(walked, tree[next_video])
    /\ next_video' = next_video + 1
    /\ UNCHANGED <<entry, pc, error, file_exists, valid_video, probeVars, splitVars, disk,
                   pipeVars, tree, list_of_videos_to_process, invocations, outcomes,
                   status, poolVars, all_videos_top_frames, stems,
                   temp_folder_at, callVars>>

\* lines 81-88: the walk yields a valid video, extract_video_keyframes is called
\* on it; ffmpeg will answer with one of DirTexts; the locals of the call are fresh
DirCallExtract ==
    /\ pc = "walk"
    /\ ~TempFolderNext
    /\ next_video <= Len(tree)
    /\ tree[next_video]
    /\ walked' = Append(walked, tree[next_video])
    /\ invocations' = Append(invocations, next_video)
    /\ infos' \in DirTexts
    /\ lines' = <<>> /\ video_duration' = NoDuration
    /\ duration' = NoDuration /\ break_point' = 0 /\ clip_start' = 0 /\ iterations' = 0
    /\ windows' = <<>> /\ clipped_files' = <<>>
    /\ task' = <<>> /\ extracted_candidate_frames' = <<>>
    /\ remove_attempted' = {} /\ remove_failed' = {} /\ top_frames' = <<>>
    /\ pc' = "extract"
    /\ UNCHANGED <<entry, error, file_exists, valid_video, cpu, min_video_duration, disk,
                   pool_extractor, pool_selector, selector_input, tree,
                   list_of_videos_to_process, next_video, outcomes, status, poolVars,
                   all_videos_top_frames, stems,
                   temp_folder_at, callVars>>

\* lines 87-90: extract_video_keyframes has returned, its frames are stored under
\* the file's path and the walk goes on; the locals of the call that returned and
\* its frame extractor and image selector are gone
DirStore ==
    /\ pc = "store"
    /\ all_videos_top_frames' = all_videos_top_frames \cup {next_video}
    /\ next_video' = next_video + 1
    /\ infos' = <<>> /\ lines' = <<>> /\ video_duration' = NoDuration
    /\ duration' = NoDuration /\ break_point' = 0 /\ clip_start' = 0 /\ iterations' = 0
    /\ windows' = <<>> /\ clipped_files' = <<>>
    /\ task' = <<>> /\ extracted_candidate_frames' = <<>>
    /\ remove_attempted' = {} /\ remove_failed' = {}
    /\ selector_input' = <<>> /\ top_frames' = <<>>
    /\ pc' = "walk"
    /\ UNCHANGED <<entry, error, file_exists, valid_video, cpu, min_video_duration, disk,
                   pool_extractor, pool_selector, tree, list_of_videos_to_process,
                   invocations, outcomes, status, poolVars, walked, stems,
                   temp_folder_at, callVars>>

\* lines 81, 92: the walk is over, the dictionary is returned
DirReturn ==
    /\ pc = "walk"
    /\ ~TempFolderNext
    /\ next_video > Len(tree)
    /\ pc' = "done"
    /\ UNCHANGED <<entry, error, file_exists, valid_video, probeVars, splitVars, disk,
                   pipeVars, compressVars, extraVars>>

(***************************************************************************)
(* Two calls of extract_video_keyframes on the same video file that run at *)
(* the same time (two Video objects in processes that share the working    *)
(* directory, hence the temporary folder "clipped").  Every clip is named  *)
(* by ClipPath: the video's base name and the two offsets, nothing else.   *)
(***************************************************************************)
Calls == 1..2

\* lines 292-294: the start of the next window of call c
CallClipStart(c) ==
    IF call_clips[c] = <<>> THEN 0 ELSE call_clips[c][Len(call_clips[c])].end

\* the calls other than c that wrote file p last and have not read it yet
UnreadOwners(c, p) ==
    {o \in Calls \ {c} : p \in disk /\ writer[p] = o /\ p \notin call_consumed[o]}

\* lines 294-304, 321-335, 359-366: call c cuts its next clip; ffmpeg runs with -y
\* and replaces a file of that name
CallCut ==
    \E c \in Calls :
        /\ call_pc[c] = "split"
        /\ CallClipStart(c) < duration
        /\ LET start == CallClipStart(c)
               p == ClipPath(VideoName, start, ClipEnd(start, BreakPoint(duration, cpu), duration,
                                                       min_video_duration))
           IN  /\ call_clips' = [call_clips EXCEPT ![c] = Append(@, p)]
               /\ disk' = disk \cup {p}
               /\ writer' = (p :> c) @@ writer
               /\ clobbered' = clobbered \cup {<<c, p>> : o \in UnreadOwners(c, p)}
        /\ UNCHANGED <<call_pc, call_consumed, call_removed>>
    /\ UNCHANGED <<entry, pc, error, file_exists, valid_video, probeVars, splitVars,
                   pipeVars, compressVars, poolVars, dirVars>>

\* lines 294, 306, 113: the loop of call c is over, _split returns the clips
CallSplitReturn ==
    \E c \in Calls :
        /\ call_pc[c] = "split"
        /\ CallClipStart(c) >= duration
        /\ call_pc' = [call_pc EXCEPT ![c] = "map"]
    /\ UNCHANGED <<entry, pc, error, file_exists, valid_video, probeVars, splitVars, disk,
                   pipeVars, compressVars, poolVars, dirVars, call_clips, call_consumed,
                   call_removed, writer, clobbered>>

\* lines 119-123: a worker of call c opens one of the call's clips
CallRead ==
    \E c \in Calls :
        /\ call_pc[c] = "map"
        /\ \E p \in Range(call_clips[c]) \ call_consumed[c] :
              call_consumed' = [call_consumed EXCEPT ![c] = @ \cup {p}]
    /\ UNCHANGED <<entry, pc, error, file_exists, valid_video, probeVars, splitVars, disk,
                   pipeVars, compressVars, poolVars, dirVars, call_pc, call_clips,
                   call_removed, writer, clobbered>>

\* lines 119-128: every clip of call c has been read, map returns, the with
\* block ends and _remove_clips is called
CallMapReturn ==
    \E c \in Calls :
        /\ call_pc[c] = "map"
        /\ Range(call_clips[c]) = call_consumed[c]
        /\ call_pc' = [call_pc EXCEPT ![c] = "remove"]
    /\ UNCHANGED <<entry, pc, error, file_exists, valid_video, probeVars, splitVars, disk,
                   pipeVars, compressVars, poolVars, dirVars, call_clips, call_consumed,
                   call_removed, writer, clobbered>>

\* lines 56-60: one iteration of the loop of _remove_clips of call c: os.remove
\* deletes the file of that name, or raises OSError (always when there is no such
\* file), which is printed and ignored
CallRemoveOne ==
    \E c \in Calls :
        /\ call_pc[c] = "remove"
        /\ call_removed[c] < Len(call_clips[c])
        /\ LET p == call_clips[c][call_removed[c] + 1]
           IN  \E raises \in (IF p \in disk THEN BOOLEAN ELSE {TRUE}) :
                  /\ disk' = IF raises THEN disk ELSE disk \ {p}
                  /\ clobbered' = IF ~raises /\ UnreadOwners(c, p) # {}
                                  THEN clobbered \cup {<<c, p>>}
                                  ELSE clobbered
        /\ call_removed' = [call_removed EXCEPT ![c] = @ + 1]
    /\ UNCHANGED <<entry, pc, error, file_exists, valid_video, probeVars, splitVars,
                   pipeVars, compressVars, poolVars, dirVars, call_pc, call_clips,
                   call_consumed, writer>>

\* lines 56, 129-134: the loop of _remove_clips is over, the frames are selected
\* and returned
CallReturn ==
    \E c \in Calls :
        /\ call_pc[c] = "remove"
        /\ call_removed[c] = Len(call_clips[c])
        /\ call_pc' = [call_pc EXCEPT ![c] = "done"]
    /\ UNCHANGED <<entry, pc, error, file_exists, valid_video, probeVars, splitVars, disk,
                   pipeVars, compressVars, poolVars, dirVars, call_clips, call_consumed,
                   call_removed, writer, clobbered>>

(***************************************************************************)
(* Initial states and specifications.                                      *)
(***************************************************************************)
ProbeIdle == infos = <<>> /\ lines = <<>> /\ video_duration = NoDuration
SplitIdle ==
    /\ duration = NoDuration /\ break_point = 0 /\ clip_start = 0 /\ iterations = 0
    /\ windows = <<>> /\ clipped_files = <<>>
PipeIdle ==
    /\ pool_extractor = "none" /\ pool_selector = "none" /\ task = <<>>
    /\ extracted_candidate_frames = <<>> /\ remove_attempted = {} /\ remove_failed = {}
    /\ selector_input = <<>> /\ top_frames = <<>>
CompressIdle ==
    /\ list_of_videos_to_process = <<>> /\ next_video = 1 /\ invocations = <<>>
    /\ outcomes = <<>> /\ status = TRUE
\* lines 40-43: the Video object has been constructed, no pool exists yet
PoolIdle == n_processes = NProcesses(cpu) /\ pool_sizes = <<>>
DirIdle ==
    /\ walked = <<>> /\ all_videos_top_frames = {} /\ stems = <<>>
    /\ temp_folder_at = NotUnder
CallIdle ==
    /\ call_pc = <<>> /\ call_clips = <<>> /\ call_consumed = <<>> /\ call_removed = <<>>
    /\ writer = <<>> /\ clobbered = {}

\* the values of self.min_video_duration the chunker is run with (centiseconds)
MinDurations == {-500, 0, 300, 500, 3000}

\* a direct call of _get_video_duration_with_ffmpeg on every sample text
InitProbe ==
    /\ entry = "probe" /\ pc = "probe" /\ error = "none"
    /\ file_exists = TRUE /\ valid_video = TRUE
    /\ infos \in SampleTexts /\ lines = <<>> /\ video_duration = NoDuration
    /\ cpu = 1 /\ min_video_duration = 0
    /\ SplitIdle /\ disk = {} /\ PipeIdle /\ tree = <<>> /\ CompressIdle
    /\ PoolIdle /\ DirIdle /\ CallIdle

NextProbe == ProbeRun \/ ProbeRunFails \/ ProbeNoLines \/ ProbeNotFound \/ ProbeUnparseable \/ ProbeReturn

SpecProbe == InitProbe /\ [][NextProbe]_vars

\* the chunking loop of _split on every duration the probe can return
InitSplit ==
    /\ entry = "split" /\ pc = "split_init" /\ error = "none"
    /\ file_exists = TRUE /\ valid_video = TRUE
    /\ infos = <<>> /\ lines = <<>> /\ video_duration \in 0..MaxDuration
    /\ cpu \in 1..MaxCpu /\ min_video_duration \in MinDurations
    /\ SplitIdle /\ disk = {} /\ PipeIdle /\ tree = <<>> /\ CompressIdle
    /\ PoolIdle /\ DirIdle /\ CallIdle

NextSplit == SplitInit \/ SplitIter \/ SplitReturn

SpecSplit == InitSplit /\ [][NextSplit]_vars

\* the loop runs in one thread that is never suspended for ever
SpecSplitFair == SpecSplit /\ WF_vars(NextSplit)

\* the diagnostic texts extract_video_keyframes is run with
Text(ls) == JoinLines(ls, <<"\n">>) \o <<"\n">>
ExtractTexts ==
    {Text(<<LineBanner, LineDur(0, 1, 30, 50)>>),
     Text(<<LineDur(0, 0, 10, 0), LineDur(0, 0, 40, 0)>>),
     Text(<<LineBanner, LineDur(0, 0, 0, 0)>>),
     Text(<<LineBanner, LineDurNA>>),
     Text(<<LineBanner, LineMissing>>),
     JoinLines(<<LineMissing, LineDur(0, 0, 40, 0)>>, <<"\r">>),
     <<>>}

\* a call of extract_video_keyframes
Init ==
    /\ entry = "extract" /\ pc = "extract" /\ error = "none"
    /\ file_exists \in BOOLEAN /\ valid_video \in BOOLEAN
    /\ infos \in ExtractTexts /\ lines = <<>> /\ video_duration = NoDuration
    /\ cpu \in 1..MaxUnits /\ min_video_duration \in {0, 500}
    /\ SplitIdle /\ disk = {} /\ PipeIdle /\ tree = <<>> /\ CompressIdle
    /\ PoolIdle /\ DirIdle /\ CallIdle

Next ==
    \/ ExtractNoFile \/ ExtractCreatePools \/ ExtractInvalid \/ ExtractCallSplit
    \/ ProbeRun \/ ProbeRunFails \/ ProbeNoLines \/ ProbeNotFound \/ ProbeUnparseable
    \/ ProbeReturn
    \/ SplitInit \/ SplitIter \/ SplitCutFails \/ SplitReturn
    \/ MapDispatch \/ TaskDone \/ TaskRaises \/ MapReturn
    \/ RemoveClips \/ SelectReturn \/ SelectRaises

Spec == Init /\ [][Next]_vars

\* a call of compress_videos_from_dir on a tree of at most MaxVideos files,
\* each a valid video (TRUE) or not (FALSE)
InitCompress ==
    /\ entry = "compress" /\ pc = "collect" /\ error = "none"
    /\ file_exists = TRUE /\ valid_video = TRUE
    /\ ProbeIdle /\ cpu = 1 /\ min_video_duration = 0
    /\ SplitIdle /\ disk = {} /\ PipeIdle
    /\ tree \in UNION {[1..n -> BOOLEAN] : n \in 0..MaxVideos}
    /\ CompressIdle /\ PoolIdle /\ DirIdle /\ CallIdle

NextCompress == CompressCollect \/ CompressOne \/ CompressRaises \/ CompressReturn

SpecCompress == InitCompress /\ [][NextCompress]_vars

\* the durations of the video the two calls work on
CallDurations == {2000, 6050, MaxDuration}

\* two calls of extract_video_keyframes on one valid video, both past the probe
InitConcurrent ==
    /\ entry = "extract_twice" /\ pc = "calls" /\ error = "none"
    /\ file_exists = TRUE /\ valid_video = TRUE
    /\ ProbeIdle /\ cpu \in {1, MaxCpu} /\ min_video_duration \in {0, 500}
    /\ duration \in CallDurations
    /\ break_point = 0 /\ clip_start = 0 /\ iterations = 0
    /\ windows = <<>> /\ clipped_files = <<>>
    /\ disk = {} /\ PipeIdle /\ tree = <<>> /\ CompressIdle /\ PoolIdle /\ DirIdle
    /\ call_pc = [c \in Calls |-> "split"]
    /\ call_clips = [c \in Calls |-> <<>>]
    /\ call_consumed = [c \in Calls |-> {}]
    /\ call_removed = [c \in Calls |-> 0]
    /\ writer = <<>> /\ clobbered = {}

NextConcurrent ==
    \/ CallCut \/ CallSplitReturn \/ CallRead
    \/ CallMapReturn \/ CallRemoveOne \/ CallReturn

SpecConcurrent == InitConcurrent /\ [][NextConcurrent]_vars

\* the file-name stems of the videos of a tree (a file that is no video has the
\* first one)
Stems == {<<1>>, <<2>>}

\* a call of extract_keyframes_from_videos_dir on a tree of at most MaxVideos
\* files, with an empty temporary folder that may lie under the scanned directory
InitExtractDir ==
    /\ entry = "extract_dir" /\ pc = "walk" /\ error = "none"
    /\ file_exists = TRUE /\ valid_video = TRUE
    /\ ProbeIdle /\ cpu \in {1, MaxUnits} /\ min_video_duration = 0
    /\ SplitIdle /\ disk = {} /\ PipeIdle
    /\ tree \in UNION {[1..n -> BOOLEAN] : n \in 0..MaxVideos}
    /\ stems \in {f \in [DOMAIN tree -> Stems] :
                      \A i \in DOMAIN tree : ~tree[i] => f[i] = <<1>>}
    /\ temp_folder_at \in {NotUnder} \cup (0..Len(tree))
    /\ CompressIdle /\ PoolIdle /\ walked = <<>> /\ all_videos_top_frames = {} /\ CallIdle

\* a call of either directory scan
InitBatch == InitCompress \/ InitExtractDir

NextBatch ==
    \/ CompressCollect \/ CompressOne \/ CompressRaises \/ CompressReturn
    \/ DirListTemp \/ DirSkip \/ DirCallExtract \/ DirStore \/ DirReturn
    \/ ExtractCreatePools \/ ExtractCallSplit
    \/ ProbeRun \/ ProbeRunFails \/ ProbeNoLines \/ ProbeNotFound \/ ProbeUnparseable
    \/ ProbeReturn
    \/ SplitInit \/ SplitIter \/ SplitCutFails \/ SplitReturn
    \/ MapDispatch \/ TaskDone \/ TaskRaises \/ MapReturn
    \/ RemoveClips \/ SelectReturn \/ SelectRaises

SpecBatch == InitBatch /\ [][NextBatch]_vars

(***************************************************************************)
(* Properties.                                                             *)
(***************************************************************************)
WindowLen(w) == w[2] - w[1]
LastWindow == windows[Len(windows)]
ClipsOnDisk == Range(clipped_files) \cap disk
Max(a, b) == IF a >= b THEN a ELSE b

\* C1 (as claimed): when extract_candidate_frames raises for a clip, the call
\* fails without a result and every clip file the call created has been removed
\* from the temporary directory.
C1_ClipsRemovedOnExtractionFailure ==
    (pc = "failed" /\ error = "ExtractionError")
        => (top_frames = <<>> /\ selector_input = <<>> /\ ClipsOnDisk = {})

\* C2: the windows of _split start at 0, satisfy 0 <= start < end <= duration,
\* are contiguous, and the last one ends at the duration (no window when the
\* duration is 0).
C2_WindowsCoverDuration ==
    /\ \A i \in 1..Len(windows) :
          0 <= windows[i][1] /\ windows[i][1] < windows[i][2] /\ windows[i][2] <= duration
    /\ windows # <<>> => windows[1][1] = 0
    /\ \A i \in 1..(Len(windows) - 1) : windows[i][2] = windows[i + 1][1]
    /\ pc = "split_loop" =>
          clip_start = (IF windows = <<>> THEN 0 ELSE LastWindow[2])
    /\ pc = "done" =>
          IF duration > 0 THEN windows # <<>> /\ LastWindow[2] = duration
          ELSE windows = <<>>

\* C2 witness: a finished split with three windows, the last one merged with a short tail
C2_Witness ==
    /\ entry = "split" /\ pc = "done" /\ Len(windows) = 3
    /\ WindowLen(LastWindow) > break_point

\* C3: with two or more windows the final window is not shorter than
\* min_video_duration, and a window whose unclamped end leaves a remainder
\* shorter than min_video_duration ends at the duration.
C3_MergeShortTail ==
    /\ (pc = "done" /\ Len(windows) >= 2) => WindowLen(LastWindow) >= min_video_duration
    /\ \A i \in 1..Len(windows) :
          LET end == windows[i][1] + break_point
          IN  (end <= duration /\ duration - end < min_video_duration)
                  => windows[i][2] = duration

\* C3 witness: a finished split of several windows whose remainder (shorter than
\* a positive min_video_duration) was absorbed by the preceding window
C3_Witness ==
    /\ entry = "split" /\ pc = "done" /\ Len(windows) >= 2 /\ min_video_duration > 0
    /\ WindowLen(LastWindow) > break_point
    /\ WindowLen(LastWindow) - break_point < min_video_duration

\* C4 (as claimed): the break point is max(25, duration / cpu_count()) seconds and
\* every window but the last is at least 25 seconds long.
C4_BreakPointIsMaxOf25AndShare ==
    pc \in {"split_loop", "done"} =>
        /\ break_point * cpu = Max(2500 * cpu, duration)
        /\ \A i \in 1..(Len(windows) - 1) : WindowLen(windows[i]) >= 2500

\* C4 (amended): the break point is floor(duration / cpu_count()) seconds when that
\* floor exceeds 15 and 25 seconds otherwise; every window but the last is exactly
\* one break point long, hence at least 16 seconds.
C4_BreakPointIsShareAbove15 ==
    pc \in {"split_loop", "done"} =>
        /\ \E share \in 0..(duration \div 100) :
              /\ 100 * cpu * share <= duration /\ duration < 100 * cpu * (share + 1)
              /\ share > 15 => break_point = 100 * share
              /\ share <= 15 => break_point = 2500
        /\ \A i \in 1..(Len(windows) - 1) :
              WindowLen(windows[i]) = break_point /\ WindowLen(windows[i]) >= 1600

\* C4 witness: a finished split of several windows with a break point below 25 seconds
C4_Witness ==
    /\ entry = "split" /\ pc = "done" /\ Len(windows) >= 2
    /\ break_point = 1600 /\ WindowLen(windows[1]) = 1600

\* C5 (as claimed): every duration >= 0 that does not exceed the break point gives
\* exactly one window, [0, duration).
C5_OneWindowUpToBreakPoint ==
    (pc = "done" /\ duration >= 0 /\ duration <= break_point)
        => windows = <<<<0, duration>>>>

\* C5 (amended): every duration > 0 that does not exceed the break point gives
\* exactly one window, [0, duration); the duration 0 gives no window.
C5_OneWindowForPositiveDuration ==
    /\ (pc = "done" /\ duration > 0 /\ duration <= break_point)
          => windows = <<<<0, duration>>>>
    /\ (pc = "done" /\ duration = 0) => windows = <<>>

\* C5 witness: 10 seconds, 4 cores, min_video_duration 3 seconds: the window [0, 10)
C5_Witness ==
    /\ entry = "split" /\ pc = "done" /\ duration = 1000 /\ cpu = 4
    /\ min_video_duration = 300 /\ break_point = 2500 /\ windows = <<<<0, 1000>>>>

\* C6: select_best_frames is not invoked while the extraction of a clip is
\* pending; it is invoked at most once, after every clip's extraction has
\* completed, with the flattened results of all clips.
C6_SelectionAfterAllExtraction ==
    /\ (\E i \in DOMAIN task : task[i].state = "pending") => selector_input = <<>>
    /\ selector_input # <<>> =>
          /\ Len(task) = Len(clipped_files)
          /\ \A i \in DOMAIN task : task[i].state = "done"
          /\ selector_input = <<Flatten(task)>>

\* C6 witness: a call that returned after selection on the candidates of several clips
C6_Witness ==
    /\ entry = "extract" /\ pc = "done" /\ Len(task) >= 3
    /\ selector_input # <<>> /\ Len(selector_input[1]) >= 2

\* C7 (as claimed): the clips are removed after the extraction has finished and
\* before selection starts, and when the call returns normally the temporary
\* directory holds no clip file created by the call.
C7_NoClipLeftOnReturn ==
    /\ remove_attempted # {} => (MapComplete(task) /\ pool_extractor = "terminated")
    /\ selector_input # <<>> => remove_attempted = Range(clipped_files)
    /\ (entry = "extract" /\ pc = "done") => ClipsOnDisk = {}

\* C7 (amended): os.remove is attempted on every clip after the extraction has
\* finished and before selection starts, and when the call returns normally the
\* only clips of the call left in the temporary directory are those whose
\* os.remove raised OSError.
C7_ClipsRemovedUnlessRemoveFails ==
    /\ remove_attempted # {} => (MapComplete(task) /\ pool_extractor = "terminated")
    /\ selector_input # <<>> => remove_attempted = Range(clipped_files)
    /\ pc = "remove" => selector_input = <<>>
    /\ (entry = "extract" /\ pc \in {"select", "done"}) =>
          (remove_attempted = Range(clipped_files) /\ ClipsOnDisk \subseteq remove_failed)

\* C7 witness: a call that returned with one removal failed and the other clips deleted
C7_Witness ==
    /\ entry = "extract" /\ pc = "done" /\ Len(clipped_files) >= 2
    /\ Cardinality(remove_failed) = 1 /\ ClipsOnDisk = remove_failed

\* C8: compress_video is invoked once per collected video, in list order, whatever
\* statuses earlier files returned; the value returned is TRUE exactly when every
\* invocation returned TRUE.
C8_NoShortCircuitAndOfAll ==
    /\ Len(invocations) <= Len(list_of_videos_to_process)
    /\ \A i \in 1..Len(invocations) : invocations[i] = list_of_videos_to_process[i]
    /\ \A i, j \in 1..Len(invocations) : invocations[i] = invocations[j] => i = j
    /\ pc = "compress" => (status <=> \A i \in 1..Len(outcomes) : outcomes[i])
    /\ pc = "done" =>
          /\ invocations = list_of_videos_to_process
          /\ Len(outcomes) = Len(list_of_videos_to_process)
          /\ status <=> \A i \in 1..Len(outcomes) : outcomes[i]

\* C8 witness: three videos, the first compression fails, all three are invoked, FALSE is returned
C8_Witness ==
    /\ entry = "compress" /\ pc = "done" /\ Len(list_of_videos_to_process) = 3
    /\ outcomes = <<FALSE, TRUE, TRUE>> /\ Len(invocations) = 3 /\ status = FALSE

\* C9 (as claimed): whatever the diagnostic text, the probe returns a duration or
\* fails with the not-found error (exactly when the last line reports a missing
\* file) or with the unparseable-metadata error; no other failure escapes.
C9_OnlyTheTwoProbeErrors ==
    (entry = "probe" /\ pc = "failed") =>
        /\ error \in {"IOError_not_found", "IOError_no_duration"}
        /\ error = "IOError_not_found" <=>
              (lines # <<>> /\ Contains(lines[Len(lines)], NoSuchFile))

\* C10: the duration returned is the one of the last line that contains
\* "Duration:", whatever earlier such lines say; 00:01:30.50 gives 90.5 seconds.
C10_LastDurationLineWins ==
    (entry = "probe" /\ pc = "done") =>
        \E j \in 1..Len(lines) :
            /\ Contains(lines[j], DurationMarker)
            /\ \A k \in (j + 1)..Len(lines) : ~Contains(lines[k], DurationMarker)
            /\ FindAll(lines[j]) # <<>>
            /\ video_duration = ConvertToSeconds(FindAll(lines[j])[1])
            /\ lines[j] = LineDur(0, 1, 30, 50) => video_duration = 9050
            /\ lines[j] = LineDur(0, 0, 40, 0) => video_duration = 4000

\* C10 witness: two Duration lines, 40 seconds then 00:01:30.50; 90.5 seconds are returned
C10_Witness ==
    /\ entry = "probe" /\ pc = "done" /\ Len(lines) = 3
    /\ lines[1] = LineDur(0, 0, 40, 0) /\ lines[2] = LineDur(0, 1, 30, 50)
    /\ lines[3] = LineBanner /\ video_duration = 9050

\* C17 (as claimed): a call whose input fails the valid-video test fails with no
\* clip cut, no work dispatched and no pool left open; no pool the call created
\* is open when the call has ended.
C17_NoSideEffectsOnInvalidVideo ==
    /\ (entry = "extract" /\ pc = "failed" /\ error = "InvalidVideo") =>
          /\ windows = <<>> /\ disk = {} /\ task = <<>>
          /\ pool_extractor # "open" /\ pool_selector # "open"
    /\ (entry = "extract" /\ pc \in {"done", "failed"}) =>
          (pool_extractor # "open" /\ pool_selector # "open")

\* C18: a pool is constructed with cpu_count() // 2 - 1 processes when that number
\* is at least 1 and with None otherwise, never with a number below 1, and the
\* two pools of a call get the same size.
C18_PoolSizing ==
    /\ \A i \in 1..Len(pool_sizes) :
          IF cpu \div 2 - 1 >= 1 THEN pool_sizes[i] = <<cpu \div 2 - 1>>
          ELSE pool_sizes[i] = <<>>
    /\ \A i \in 1..Len(pool_sizes) : \A k \in 1..Len(pool_sizes[i]) : pool_sizes[i][k] >= 1
    /\ Len(pool_sizes) \in {0, 2}
    /\ Len(pool_sizes) = 2 => pool_sizes[1] = pool_sizes[2]
    /\ pool_extractor # "none" => Len(pool_sizes) = 2

\* C18 witness: a finished call on 8 cores whose two pools were created with 3 processes
C18_Witness ==
    /\ entry = "extract" /\ pc = "done" /\ cpu = 8
    /\ pool_sizes = <<<<3>>, <<3>>>>

\* C14 (as claimed): when ffmpeg fails on the k-th window the failure leaves the
\* call, no window is cut a second time, and the clips cut for the windows
\* before it have been removed from the temporary directory.
C14_ClipsRemovedOnCutFailure ==
    (entry = "extract" /\ pc = "failed" /\ error = "FFRuntimeError" /\ windows # <<>>) =>
        /\ Len(windows) = Len(clipped_files) + 1
        /\ \A i, j \in 1..Len(windows) : windows[i] = windows[j] => i = j
        /\ ClipsOnDisk = {}

\* C15: a duration that is k >= 1 break points long, with min_video_duration not
\* above the break point, gives exactly k windows of one break point each (100
\* seconds on 4 cores give [0,25) [25,50) [50,75) [75,100)).
C15_ExactMultipleGivesEqualWindows ==
    (pc = "done" /\ duration > 0 /\ duration % break_point = 0
                 /\ min_video_duration <= break_point) =>
        /\ Len(windows) = duration \div break_point
        /\ \A i \in 1..Len(windows) :
              windows[i] = <<(i - 1) * break_point, i * break_point>>

\* C15 witness: 100 seconds, 4 cores, min_video_duration 5 seconds
C15_Witness ==
    /\ entry = "split" /\ pc = "done" /\ duration = 10000 /\ cpu = 4
    /\ min_video_duration = 500 /\ break_point = 2500
    /\ windows = <<<<0, 2500>>, <<2500, 5000>>, <<5000, 7500>>, <<7500, 10000>>>>

\* C16: the break point is positive, every iteration of the loop moves clip_start
\* forward, the loop is left exactly when clip_start >= duration, and every
\* run of the loop ends.
C16_LoopTerminates ==
    /\ [](pc \in {"split_loop", "done"} => break_point > 0)
    /\ [][(pc = "split_loop" /\ pc' = "split_loop") =>
              (clip_start < duration /\ clip_start' > clip_start
               /\ iterations' = iterations + 1)]_vars
    /\ [][(pc = "split_loop" /\ pc' = "done") => ~(clip_start < duration)]_vars
    /\ [](pc = "split_loop" => iterations * break_point <= clip_start + break_point)
    /\ <>(pc = "done")

\* C16 witness: a loop that ended after four iterations
C16_Witness ==
    /\ entry = "split" /\ pc = "done" /\ iterations = 4 /\ clip_start = duration

\* C12: the list of pass 2 is the list of the valid videos the walk of pass 1
\* saw and does not change during pass 2; only those files are compressed, each
\* at most once, all of them when the call returns, and never a file written
\* into the tree during pass 2.
C12_OnlyScannedVideosCompressed ==
    (entry = "compress" /\ pc # "collect") =>
        /\ list_of_videos_to_process = ValidVideos(walked, 1)
        /\ Len(walked) <= Len(tree)
        /\ \A i \in 1..Len(invocations) :
              invocations[i] <= Len(walked) /\ walked[invocations[i]]
        /\ \A i, j \in 1..Len(invocations) : invocations[i] = invocations[j] => i = j
        /\ pc = "done" =>
              Range(invocations) = {i \in 1..Len(walked) : walked[i]}

\* C12 witness: a finished call that compressed the two videos of the scan while
\* two output files were written into the tree
C12_Witness ==
    /\ entry = "compress" /\ pc = "done" /\ walked = <<TRUE, TRUE>>
    /\ Len(tree) = 4 /\ invocations = <<1, 2>>

\* C13: when compress_video or extract_video_keyframes raises for an item of a
\* directory scan, the scan fails at once: the raising item is the last one
\* processed and no boolean or dictionary is returned.
C13_FailureAbortsBatch ==
    /\ pc = "done" => error = "none"
    /\ error # "none" =>
          /\ pc = "failed" /\ invocations # <<>>
          /\ entry = "compress" =>
                /\ Len(outcomes) = Len(invocations) - 1
                /\ next_video = Len(invocations)
                /\ invocations[Len(invocations)] = list_of_videos_to_process[next_video]
          /\ entry = "extract_dir" =>
                /\ Cardinality(all_videos_top_frames) = Len(invocations) - 1
                /\ invocations[Len(invocations)] = next_video
                /\ next_video \notin all_videos_top_frames

\* C13 witness: three valid videos, the extraction of the second raises, the third is not touched
C13_Witness ==
    /\ entry = "extract_dir" /\ pc = "failed" /\ tree = <<TRUE, TRUE, TRUE>>
    /\ invocations = <<1, 2>> /\ all_videos_top_frames = {1}

\* C11: two concurrent extract calls on the same video never name the same
\* clip file, and neither call overwrites or deletes a clip file the other has
\* written and not yet read.
C11_ClipPathsExclusive ==
    entry = "extract_twice" =>
        /\ Range(call_clips[1]) \cap Range(call_clips[2]) = {}
        /\ clobbered = {}

====
